---- MODULE Spec2Model ----
(***************************************************************************)
(* jsoNinja (src/main.py): the path-addressed DataStore and the            *)
(* JsonCollector / JsonPipe / Transformer orchestration.                   *)
(*                                                                         *)
(* Python values are modelled as tagged records.  Objects a caller (or a   *)
(* parsed document) keeps a reference to live in `heap` and appear in the  *)
(* tree as references, so that two key paths can hold the same object.     *)
(* Every other object has exactly one holder and is written inline.        *)
(* Strings are sequences of one-character strings.                         *)
(***************************************************************************)
EXTENDS Integers, Sequences, FiniteSets, TLC

\* ------------------------------------------------------------------ bounds
MaxOps == 3
MaxPipes == 2
MaxCollectors == 2
MaxSinks == 2
ResolveDepth == 3

\* ------------------------------------------------------------------ values
Val(t, s, b, e, m, dd, id) ==
    [t |-> t, s |-> s, b |-> b, e |-> e, m |-> m, dd |-> dd, id |-> id]

Str(s) == Val("str", s, FALSE, <<>>, <<>>, FALSE, "")

Bool(b) == Val("bool", <<>>, b, <<>>, <<>>, FALSE, "")

None == Val("none", <<>>, FALSE, <<>>, <<>>, FALSE, "")

List(e) == Val("list", <<>>, FALSE, e, <<>>, FALSE, "")

\* a plain dict
Dict(m) == Val("map", <<>>, FALSE, <<>>, m, FALSE, "")

\* defaultdict(dict)
DefaultDict(m) == Val("map", <<>>, FALSE, <<>>, m, TRUE, "")

\* a reference to the heap object id
Ref(id) == Val("ref", <<>>, FALSE, <<>>, <<>>, FALSE, id)

EmptyMap == [k \in {} |-> None]

\* the objects the caller keeps references to: one dict, one list
PoolIds == {"D", "L"}

InitHeap == [i \in PoolIds |-> IF i = "D" THEN Dict(EmptyMap) ELSE List(<<>>)]

\* DataStore.__init__
InitStore == DefaultDict(EmptyMap)

\* the object a value denotes
Deref(hp, v) == IF v.t = "ref" THEN hp[v.id] ELSE v

\* isinstance(v, list)
IsList(hp, v) == Deref(hp, v).t = "list"

\* ------------------------------------------------------------------ key paths
WS == " "
DOT == "."

RECURSIVE LStrip(_)
LStrip(s) == IF s # <<>> /\ Head(s) = WS THEN LStrip(Tail(s)) ELSE s

RECURSIVE RStrip(_)
RStrip(s) ==
    IF s # <<>> /\ s[Len(s)] = WS THEN RStrip(SubSeq(s, 1, Len(s) - 1)) ELSE s

\* str.strip()
Strip(s) == RStrip(LStrip(s))

\* str.split(".")
RECURSIVE Split(_)
Split(s) ==
    IF \E i \in 1..Len(s) : s[i] = DOT
    THEN LET i == CHOOSE j \in 1..Len(s) :
                    s[j] = DOT /\ \A l \in 1..(j - 1) : s[l] # DOT
         IN <<SubSeq(s, 1, i - 1)>> \o Split(SubSeq(s, i + 1, Len(s)))
    ELSE <<s>>

\* key_path.strip().split(".")
Keys(key_path) == Split(Strip(key_path))

\* ------------------------------------------------------------------ tree access
\* a store state: the DataStore's _dict and the heap of shared objects
St(st, hp) == [store |-> st, heap |-> hp]

\* a position in the tree: the object reached from `base` ("root": DataStore._dict,
\* otherwise a heap object) by the keys of `path`
Cursor(base, path) == [base |-> base, path |-> path]

RECURSIVE GetIn(_, _)
GetIn(v, path) == IF path = <<>> THEN v ELSE GetIn(v.m[Head(path)], Tail(path))

RECURSIVE PutIn(_, _, _, _)
PutIn(v, path, k, x) ==
    IF path = <<>>
    THEN [v EXCEPT !.m = (k :> x) @@ v.m]
    ELSE [v EXCEPT !.m[Head(path)] = PutIn(@, Tail(path), k, x)]

\* the object `curr` names
Obj(S, c) == GetIn(IF c.base = "root" THEN S.store ELSE S.heap[c.base], c.path)

\* curr[k] = x on a mapping
Put(S, c, k, x) ==
    IF c.base = "root"
    THEN St(PutIn(S.store, c.path, k, x), S.heap)
    ELSE St(S.store, [S.heap EXCEPT ![c.base] = PutIn(@, c.path, k, x)])

\* the position of curr[k]
Child(S, c, k) ==
    LET child == Obj(S, c).m[k]
    IN IF child.t = "ref" THEN Cursor(child.id, <<>>)
                          ELSE Cursor(c.base, c.path \o <<k>>)

\* the loop of _get_dict_and_key over keys[:-1].  On a list or a str both
\* branches of `key not in curr` end in a TypeError (item assignment, or a str
\* index); on a bool or None the membership test itself raises it.
RECURSIVE Walk(_, _, _)
Walk(S, c, ks) ==
    IF ks = <<>> THEN [S |-> S, c |-> c, err |-> "ok"]
    ELSE LET curr == Obj(S, c)
             k == Head(ks)
         IN IF curr.t # "map" THEN [S |-> S, c |-> c, err |-> "TypeError"]
            ELSE LET S1 == IF k \notin DOMAIN curr.m
                           THEN Put(S, c, k, DefaultDict(EmptyMap))
                           ELSE S
                 IN Walk(S1, Child(S1, c, k), Tail(ks))

\* DataStore._get_dict_and_key; returning None makes the caller's unpacking
\* raise a TypeError
GetDictAndKey(S, key_path) ==
    LET keys == Keys(key_path)
        w == Walk(S, Cursor("root", <<>>), SubSeq(keys, 1, Len(keys) - 1))
    IN IF w.err # "ok" THEN [S |-> w.S, c |-> w.c, key |-> <<>>, err |-> w.err]
       ELSE IF Obj(w.S, w.c).t = "none"
            THEN [S |-> w.S, c |-> w.c, key |-> <<>>, err |-> "TypeError"]
            ELSE [S |-> w.S, c |-> w.c, key |-> keys[Len(keys)], err |-> "ok"]

\* the read obj[key]: a defaultdict(dict) inserts {} for a missing key, a plain
\* dict raises KeyError, anything else cannot be indexed by a str
GetItem(S, c, key) ==
    LET obj == Obj(S, c)
    IN IF obj.t # "map" THEN [S |-> S, err |-> "TypeError"]
       ELSE IF key \in DOMAIN obj.m THEN [S |-> S, err |-> "ok"]
       ELSE IF obj.dd THEN [S |-> Put(S, c, key, Dict(EmptyMap)), err |-> "ok"]
       ELSE [S |-> S, err |-> "KeyError"]

\* if not isinstance(obj[key], list): obj[key] = []
ResetToList(S, c, key) ==
    LET g == GetItem(S, c, key)
    IN IF g.err # "ok" THEN g
       ELSE IF IsList(g.S.heap, Obj(g.S, c).m[key]) THEN g
       ELSE [S |-> Put(g.S, c, key, List(<<>>)), err |-> "ok"]

\* obj[key] += items, in place on the list object obj[key] names
AddItems(S, c, key, items) ==
    LET target == Obj(S, c).m[key]
    IN IF target.t = "ref"
       THEN St(S.store, [S.heap EXCEPT ![target.id].e = @ \o items])
       ELSE Put(S, c, key, List(target.e \o items))

\* iter(value): a list gives its elements, a str its characters; a bool or
\* None is not iterable.  (A dict gives its keys in insertion order, which the
\* mappings here do not record: ExtendValues holds no dict.)
Chars(s) == [i \in 1..Len(s) |-> Str(<<s[i]>>)]

Iter(hp, value) ==
    LET v == Deref(hp, value)
    IN IF v.t = "list" THEN [ok |-> TRUE, items |-> v.e]
       ELSE IF v.t = "str" THEN [ok |-> TRUE, items |-> Chars(v.s)]
       ELSE [ok |-> FALSE, items |-> <<>>]

\* DataStore.set
Set(S, key_path, value) ==
    LET r == GetDictAndKey(S, key_path)
    IN IF r.err # "ok" THEN [S |-> r.S, err |-> r.err]
       ELSE IF Obj(r.S, r.c).t # "map" THEN [S |-> r.S, err |-> "TypeError"]
       ELSE [S |-> Put(r.S, r.c, r.key, value), err |-> "ok"]

\* DataStore.append
AppendTo(S, key_path, value) ==
    LET r == GetDictAndKey(S, key_path)
    IN IF r.err # "ok" THEN [S |-> r.S, err |-> r.err]
       ELSE LET l == ResetToList(r.S, r.c, r.key)
            IN IF l.err # "ok" THEN l
               ELSE [S |-> AddItems(l.S, r.c, r.key, <<value>>), err |-> "ok"]

\* DataStore.extend
Extend(S, key_path, value) ==
    LET r == GetDictAndKey(S, key_path)
    IN IF r.err # "ok" THEN [S |-> r.S, err |-> r.err]
       ELSE LET l == ResetToList(r.S, r.c, r.key)
            IN IF l.err # "ok" THEN l
               ELSE LET it == Iter(l.S.heap, value)
                    IN IF ~it.ok THEN [S |-> l.S, err |-> "TypeError"]
                       ELSE [S |-> AddItems(l.S, r.c, r.key, it.items),
                             err |-> "ok"]

\* ------------------------------------------------------------------ reading
Absent == Val("absent", <<>>, FALSE, <<>>, <<>>, FALSE, "")

\* store._dict[k1][k2]... without writing: Absent where a segment is missing
\* or the value above it is not a mapping
RECURSIVE ReadFrom(_, _, _)
ReadFrom(hp, v, ks) ==
    IF ks = <<>> THEN v
    ELSE LET o == Deref(hp, v)
         IN IF o.t = "map" /\ Head(ks) \in DOMAIN o.m
            THEN ReadFrom(hp, o.m[Head(ks)], Tail(ks))
            ELSE Absent

Read(S, key_path) == ReadFrom(S.heap, S.store, Keys(key_path))

\* the content of a value with references followed, to depth d
RECURSIVE Resolve(_, _, _)
Resolve(hp, v, d) ==
    LET o == Deref(hp, v)
    IN IF d = 0 THEN v
       ELSE IF o.t = "list"
            THEN List([i \in 1..Len(o.e) |-> Resolve(hp, o.e[i], d - 1)])
       ELSE IF o.t = "map"
            THEN [o EXCEPT !.m = [k \in DOMAIN o.m |-> Resolve(hp, o.m[k], d - 1)]]
       ELSE o

Content(S, key_path) == Resolve(S.heap, Read(S, key_path), ResolveDepth)


\* ------------------------------------------------------------------ state
VARIABLES
    store,      \* DataStore._dict of the store in use (Absent: none created yet)
    heap,       \* the objects callers and documents hold references to
    call,       \* the last DataStore call made directly, with its outcome
    pre,        \* the store state that call started from
    ops,        \* number of direct DataStore calls made
    pc,         \* position of Transformer.run
    nPipes,     \* len(self.sources)
    nSinks,     \* len(self.sinks)
    pidx,       \* index of the pipe being run
    nColl,      \* len(self.collectors) of that pipe
    cidx,       \* index of the collector being run
    sidx,       \* index of the sink being sent to
    pipeRuns,   \* the pipes whose run was invoked, in order
    clog,       \* the collectors run by the pipe that ran last, with the store
                \* before and after each (emptied when the next pipe or sink starts)
    sends,      \* the send calls invoked, in order, with the store each received
    final,      \* the store as the last pipe left it
    writes,     \* the output files written by this run, in order
    outputs,    \* the output files: path -> content
    failure     \* where the run raised, if it did

runVars == <<pc, nPipes, nSinks, pidx, nColl, cidx, sidx, pipeRuns, clog, sends,
             final, writes, outputs, failure>>

vars == <<store, heap, call, pre, ops, pc, nPipes, nSinks, pidx, nColl, cidx,
          sidx, pipeRuns, clog, sends, final, writes, outputs, failure>>

Here == St(store, heap)

\* ------------------------------------------------------------------ inputs
Ann == Str(<<"A", "n", "n">>)
Bo == Str(<<"B", "o">>)

\* key paths, as the character sequences passed to the DataStore
KP_a == <<"a">>
KP_b == <<"b">>
KP_ab == <<" ", "a", ".", "b", " ">>
KP_a__b == <<"a", ".", ".", "b">>
KP_empty == <<>>

KeyPaths == {KP_a, KP_b, KP_ab, KP_a__b, KP_empty}

\* values passed to set and append, and as extend's iterable
Values == {Ann, Bool(TRUE), None, List(<<Ann, Bo>>), Ref("D"), Ref("L")}

ExtendValues == Values \ {Ref("D")}

NoCall == [op |-> "none", key_path |-> <<>>, value |-> None, err |-> "ok"]

NoFailure == [stage |-> "none", idx |-> 0]

NoOutputs == [p \in {} |-> None]

RunIdle ==
    /\ pc = "init"
    /\ nPipes = 0 /\ nSinks = 0
    /\ pidx = 0 /\ nColl = 0 /\ cidx = 0 /\ sidx = 0
    /\ pipeRuns = <<>> /\ clog = <<>> /\ sends = <<>> /\ writes = <<>>
    /\ final = St(Absent, InitHeap)
    /\ outputs = NoOutputs
    /\ failure = NoFailure

\* ------------------------------------------------------------------ DataStore calls
\* a DataStore, constructed, on which set/append/extend are then called
StoreInit ==
    /\ store = InitStore
    /\ heap = InitHeap
    /\ call = NoCall
    /\ pre = St(InitStore, InitHeap)
    /\ ops = 0
    /\ RunIdle

Outcome(op, key_path, value, r) ==
    [op |-> op, key_path |-> key_path, value |-> value, err |-> r.err]

CallSet ==
    /\ ops < MaxOps
    /\ \E p \in KeyPaths, v \in Values :
          LET r == Set(Here, p, v)
          IN /\ store' = r.S.store
             /\ heap' = r.S.heap
             /\ call' = Outcome("set", p, v, r)
    /\ pre' = Here
    /\ ops' = ops + 1
    /\ UNCHANGED runVars

CallAppend ==
    /\ ops < MaxOps
    /\ \E p \in KeyPaths, v \in Values :
          LET r == AppendTo(Here, p, v)
          IN /\ store' = r.S.store
             /\ heap' = r.S.heap
             /\ call' = Outcome("append", p, v, r)
    /\ pre' = Here
    /\ ops' = ops + 1
    /\ UNCHANGED runVars

CallExtend ==
    /\ ops < MaxOps
    /\ \E p \in KeyPaths, v \in ExtendValues :
          LET r == Extend(Here, p, v)
          IN /\ store' = r.S.store
             /\ heap' = r.S.heap
             /\ call' = Outcome("extend", p, v, r)
    /\ pre' = Here
    /\ ops' = ops + 1
    /\ UNCHANGED runVars

StoreNext == CallSet \/ CallAppend \/ CallExtend

StoreSpec == StoreInit /\ [][StoreNext]_vars


\* ------------------------------------------------------------------ Transformer.run
\* What jsonpath.jsonpath(json_obj, json_path) gave: False, the non-empty list
\* of the matched values, or an exception.
Query(r, items) == [r |-> r, items |-> items]

QueryResults ==
    {Query("notfound", <<>>), Query("raise", <<>>), Query("match", <<Ann, Bo>>)}

CollectorKinds == {"extend", "append"}

CollectorPaths == {KP_a, KP_ab}

\* a Sink only logs; a JinjaTemplateSink renders into output_path, or raises
\* (unreadable template, render error, output not writable)
SinkOf(kind, out, raises) == [kind |-> kind, out |-> out, raises |-> raises]

SinkChoices ==
    {SinkOf("Sink", "", FALSE)}
        \cup {SinkOf("Jinja", o, r) : o \in {"o1", "o2"}, r \in BOOLEAN}

\* a collector that replaces what is at its key path
CollectorSetReplace(S, kind, key_path, json_obj) == Set(S, key_path, json_obj)

\* JsonStaticListExtender._set / JsonStaticListAppender._set
CollectorSet(S, kind, key_path, json_obj) ==
    IF kind = "extend" THEN Extend(S, key_path, json_obj)
                       ELSE AppendTo(S, key_path, json_obj)

\* a collector that passes False on to _set
JsonCollectorRunUnchecked(S, kind, key_path, q) ==
    IF q.r = "raise" THEN [S |-> S, err |-> "QueryError"]
    ELSE IF q.r = "notfound" THEN CollectorSet(S, kind, key_path, Bool(FALSE))
    ELSE CollectorSet(S, kind, key_path, List(q.items))

\* JsonCollector.run, given the outcome q of the jsonpath call
JsonCollectorRun(S, kind, key_path, q) ==
    IF q.r = "raise" THEN [S |-> S, err |-> "QueryError"]
    ELSE IF q.r = "notfound" THEN [S |-> S, err |-> "ok"]
    ELSE CollectorSet(S, kind, key_path, List(q.items))

\* template.render(**store._dict) of sink j's template: the renderer is a
\* function of the template and the bindings
Rendered(j, S) == [template |-> j, bindings |-> S]

\* Sink.send / JinjaTemplateSink.send on the output files `out`
SinkSend(snk, j, S, out) ==
    IF snk.raises THEN [out |-> out, wrote |-> <<>>, err |-> "SinkError"]
    ELSE IF snk.kind = "Sink" THEN [out |-> out, wrote |-> <<>>, err |-> "ok"]
    ELSE [out |-> (snk.out :> Rendered(j, S)) @@ out,
          wrote |-> <<[sink |-> j, path |-> snk.out, content |-> Rendered(j, S)]>>,
          err |-> "ok"]

Pos(p, i, j) == [pc |-> p, pidx |-> i, sidx |-> j]

\* the loop over self.sinks, about to take sink j of n
SinkPos(i, j, n) == IF j <= n THEN Pos("sink", i, j) ELSE Pos("done", i, j)

\* a loop over self.sources that stops after the first pipe
PipePosFirstOnly(i, n, sinks) ==
    IF i <= n /\ i <= 1 THEN Pos("pipe", i, 0) ELSE SinkPos(i, 1, sinks)

\* the loop over self.sources, about to take pipe i of n; then the sinks
PipePos(i, n, sinks) == IF i <= n THEN Pos("pipe", i, 0) ELSE SinkPos(i, 1, sinks)

\* an exception leaves JsonPipe.run and Transformer.run, which catch nothing
AfterCollector(err, i, c, nc, n, sinks) ==
    IF err # "ok" THEN Pos("failed", i, 0)
    ELSE IF c < nc THEN Pos("collector", i, 0)
    ELSE PipePos(i + 1, n, sinks)

\* a run that goes on to the next sink whatever send did
AfterSendSwallowed(err, i, j, n) == SinkPos(i, j + 1, n)

AfterSend(err, i, j, n) ==
    IF err # "ok" THEN Pos("failed", i, j) ELSE SinkPos(i, j + 1, n)

Goto(pos, S) ==
    /\ pc' = pos.pc
    /\ pidx' = pos.pidx
    /\ sidx' = pos.sidx
    /\ final' = IF pc \notin {"sink", "done"} /\ pos.pc \in {"sink", "done"}
                THEN S ELSE final

\* a Transformer, constructed with its pipes and sinks
Init ==
    /\ store = Absent
    /\ heap = InitHeap
    /\ call = NoCall
    /\ pre = St(InitStore, InitHeap)
    /\ ops = 0
    /\ pc = "init"
    /\ nPipes \in 0..MaxPipes
    /\ nSinks \in 0..MaxSinks
    /\ pidx = 0 /\ nColl = 0 /\ cidx = 0 /\ sidx = 0
    /\ pipeRuns = <<>> /\ clog = <<>> /\ sends = <<>> /\ writes = <<>>
    /\ final = St(Absent, InitHeap)
    /\ outputs = NoOutputs
    /\ failure = NoFailure

\* Transformer.run, line 217: store = DataStore()
TransformerRun ==
    /\ pc = "init"
    /\ store' = InitStore
    /\ Goto(PipePos(1, nPipes, nSinks), St(InitStore, heap))
    /\ UNCHANGED <<heap, call, pre, ops, nPipes, nSinks, nColl, cidx, pipeRuns,
                   clog, sends, writes, outputs, failure>>

\* JsonPipe.run, line 206: json_obj = self.source.root().  The pipe's
\* collectors are fixed at construction and each is used once in a run: their
\* number is drawn here, each collector when its turn comes.
PipeRun ==
    /\ pc = "pipe"
    /\ pipeRuns' = Append(pipeRuns, pidx)
    /\ clog' = <<>>
    /\ \E raises \in BOOLEAN, n \in 0..MaxCollectors :
          /\ nColl' = n
          /\ cidx' = 1
          /\ failure' = IF raises THEN [stage |-> "pipe", idx |-> pidx] ELSE failure
          /\ Goto(AfterCollector(IF raises THEN "SourceError" ELSE "ok",
                                 pidx, 0, n, nPipes, nSinks), Here)
    /\ UNCHANGED <<store, heap, call, pre, ops, nPipes, nSinks, sends, writes,
                   outputs>>

\* JsonPipe.run, lines 207-208: collector.run(json_obj, store)
CollectorRun ==
    /\ pc = "collector"
    /\ \E kind \in CollectorKinds, key_path \in CollectorPaths, q \in QueryResults :
          LET r == JsonCollectorRun(Here, kind, key_path, q)
          IN /\ store' = r.S.store
             /\ heap' = r.S.heap
             /\ clog' = Append(clog, [kind |-> kind, key_path |-> key_path, q |-> q,
                                      before |-> Here, after |-> r.S, err |-> r.err])
             /\ failure' = IF r.err # "ok" THEN [stage |-> "pipe", idx |-> pidx]
                                           ELSE failure
             /\ cidx' = cidx + 1
             /\ Goto(AfterCollector(r.err, pidx, cidx, nColl, nPipes, nSinks), r.S)
    /\ UNCHANGED <<call, pre, ops, nPipes, nSinks, nColl, pipeRuns, sends, writes,
                   outputs>>

\* Transformer.run, lines 220-221: sink.send(store)
SendToSink ==
    /\ pc = "sink"
    /\ sends' = Append(sends, [sink |-> sidx, S |-> Here])
    /\ clog' = <<>>
    /\ \E snk \in SinkChoices :
          LET r == SinkSend(snk, sidx, Here, outputs)
          IN /\ outputs' = r.out
             /\ writes' = writes \o r.wrote
             /\ failure' = IF r.err # "ok" THEN [stage |-> "sink", idx |-> sidx]
                                           ELSE failure
             /\ Goto(AfterSend(r.err, pidx, sidx, nSinks), Here)
    /\ UNCHANGED <<store, heap, call, pre, ops, nPipes, nSinks, nColl, cidx,
                   pipeRuns>>

Next == TransformerRun \/ PipeRun \/ CollectorRun \/ SendToSink

Spec == Init /\ [][Next]_vars

\* ------------------------------------------------------------------ run claims
Indices(n) == [i \in 1..n |-> i]

SendOrder == [i \in 1..Len(sends) |-> sends[i].sink]

RECURSIVE ApplyWrites(_)
ApplyWrites(ws) ==
    IF ws = <<>> THEN NoOutputs
    ELSE (ws[Len(ws)].path :> ws[Len(ws)].content)
             @@ ApplyWrites(SubSeq(ws, 1, Len(ws) - 1))

\* the sequence at a key path, <<>> when none is there
ListAt(S, key_path) ==
    LET v == Deref(S.heap, Read(S, key_path))
    IN IF v.t = "list" THEN v.e ELSE <<>>

IsPrefix(a, b) == Len(a) <= Len(b) /\ SubSeq(b, 1, Len(a)) = a

IsSuffix(a, b) ==
    Len(a) <= Len(b) /\ SubSeq(b, Len(b) - Len(a) + 1, Len(b)) = a

\* what a collector's write adds at its key path
Contribution(c) == IF c.kind = "extend" THEN c.q.items ELSE <<List(c.q.items)>>

Wrote(c) == c.q.r = "match" /\ c.err = "ok"

\* the pipe that ran last has run all its collectors
PipeDone == pc \in {"pipe", "sink", "done"} /\ clog # <<>> /\ Len(clog) = nColl

\* C1: in a run in which nothing raises, the store starts empty, the pipes run
\* once each in configured order, the sinks are sent to once each in
\* configured order and only after the last pipe has finished, and every sink
\* receives the store as the last pipe left it, which nothing changes after.
C1_RunOrder ==
    failure = NoFailure =>
        /\ pipeRuns = Indices(Len(pipeRuns))
        /\ SendOrder = Indices(Len(sends))
        /\ (pc # "init" /\ pipeRuns = <<>>) => Here = St(InitStore, InitHeap)
        /\ pc \in {"sink", "done"} =>
               /\ Len(pipeRuns) = nPipes
               /\ final = Here
               /\ \A i \in 1..Len(sends) : sends[i].S = final
        /\ pc \notin {"sink", "done"} => sends = <<>>
        /\ pc = "done" => Len(sends) = nSinks

C1_Witness ==
    /\ pc = "done" /\ failure = NoFailure
    /\ nPipes = 2 /\ nSinks = 2
    /\ Len(sends) = 2
    /\ store # InitStore

\* C4: a collector whose query matches nothing returns normally and leaves the
\* whole store as it was: nothing at its target path changes and no
\* intermediate mapping is created.
C4_NotFoundLeavesStore ==
    \A i \in 1..Len(clog) :
        clog[i].q.r = "notfound" =>
            clog[i].err = "ok" /\ clog[i].after = clog[i].before

C4_Witness ==
    /\ Len(clog) = 2
    /\ clog[2].q.r = "notfound"
    /\ clog[2].key_path = KP_a
    /\ ListAt(clog[2].before, KP_a) = <<Ann, Bo>>
    /\ store = clog[2].before.store

\* C5 as claimed: when two collectors of one pipe have the same target key
\* path and both queries match, the value at that path after the pipe has run
\* is the later collector's write alone.
C5_LaterWriteAlone ==
    PipeDone =>
        \A i, j \in 1..Len(clog) :
            (/\ i < j
             /\ Keys(clog[i].key_path) = Keys(clog[j].key_path)
             /\ Wrote(clog[i]) /\ Wrote(clog[j])
             /\ \A k \in (j + 1)..Len(clog) : ~Wrote(clog[k]))
                => ListAt(Here, clog[j].key_path) = Contribution(clog[j])

\* C5 amended: the later collector's write is added to the sequence at the
\* path, after the earlier collector's write, which remains.
C5_WritesAccumulate ==
    \A i, j \in 1..Len(clog) :
        (/\ i < j
         /\ Keys(clog[i].key_path) = Keys(clog[j].key_path)
         /\ Wrote(clog[i]) /\ Wrote(clog[j]))
            => LET p == clog[j].key_path
               IN /\ IsList(clog[j].after.heap, Read(clog[j].after, p))
                  /\ IsSuffix(Contribution(clog[i]), ListAt(clog[i].after, p))
                  /\ IsPrefix(ListAt(clog[i].after, p), ListAt(clog[j].before, p))
                  /\ ListAt(clog[j].after, p)
                         = ListAt(clog[j].before, p) \o Contribution(clog[j])

C5_Witness ==
    /\ PipeDone
    /\ Len(clog) = 2
    /\ clog[1].key_path = clog[2].key_path
    /\ clog[1].kind = "extend" /\ clog[2].kind = "append"
    /\ Wrote(clog[1]) /\ Wrote(clog[2])
    /\ ListAt(Here, clog[2].key_path) = <<Ann, Bo, List(<<Ann, Bo>>)>>

\* C7: an error raised by a pipe or a sink ends the run there: after a failure
\* in pipe i no later pipe has run and no sink was sent to; after a failure in
\* sink j no later sink was sent to, and the output files are those written by
\* the sinks before j.
C7_FailureStopsRun ==
    /\ failure.stage # "none" => pc = "failed"
    /\ failure.stage = "pipe" =>
           /\ pipeRuns = Indices(failure.idx)
           /\ sends = <<>>
           /\ outputs = NoOutputs
    /\ failure.stage = "sink" =>
           /\ SendOrder = Indices(failure.idx)
           /\ \A w \in 1..Len(writes) : writes[w].sink < failure.idx
           /\ outputs = ApplyWrites(writes)

C7_Witness ==
    /\ failure = [stage |-> "sink", idx |-> 2]
    /\ nSinks = 2
    /\ Len(writes) = 1
    /\ "o1" \in DOMAIN outputs


\* ------------------------------------------------------------------ DataStore claims
ReadKeys(S, ks) == ReadFrom(S.heap, S.store, ks)

HasEmptySegment(key_path) ==
    \E i \in 1..Len(Keys(key_path)) : Keys(key_path)[i] = <<>>

\* a value that is there and is no mapping
IsLeaf(hp, v) == v.t # "absent" /\ Deref(hp, v).t # "map"

\* some mapping of the tree, however reached, has the empty string as a key
RECURSIVE EmptyKeyIn(_, _, _)
EmptyKeyIn(hp, v, d) ==
    LET o == Deref(hp, v)
    IN /\ d > 0
       /\ \/ o.t = "map" /\ \/ <<>> \in DOMAIN o.m
                            \/ \E k \in DOMAIN o.m : EmptyKeyIn(hp, o.m[k], d - 1)
          \/ o.t = "list" /\ \E i \in 1..Len(o.e) : EmptyKeyIn(hp, o.e[i], d - 1)

\* C2: for every key path p with non-empty segments and every value v, in every
\* reachable store state, set(p, v) raises nothing and reading p afterwards
\* gives exactly v.
C2_SetThenRead ==
    (call.op = "set" /\ ~HasEmptySegment(call.key_path))
        => /\ call.err = "ok"
           /\ Read(Here, call.key_path) = call.value

\* C3: in every reachable store state where p is absent or holds a
\* non-sequence, extend(p, xs) with a sequence xs raises nothing and leaves at
\* p a sequence equal to xs, element for element and in order.
C3_ExtendYieldsXs ==
    (/\ call.op = "extend"
     /\ IsList(pre.heap, call.value)
     /\ ~IsList(pre.heap, Read(pre, call.key_path)))
        => /\ call.err = "ok"
           /\ IsList(heap, Read(Here, call.key_path))
           /\ Deref(heap, Read(Here, call.key_path)).e
                  = Deref(pre.heap, call.value).e

\* C6: every proper prefix of a written key path holds a mapping: a set,
\* append or extend that targets a sub-path of a path holding a leaf raises
\* nothing, and afterwards that path holds a mapping.
C6_LeafBecomesMapping ==
    \A i \in 1..(Len(Keys(call.key_path)) - 1) :
        LET prefix == SubSeq(Keys(call.key_path), 1, i)
        IN (call.op # "none" /\ IsLeaf(pre.heap, ReadKeys(pre, prefix)))
               => /\ call.err = "ok"
                  /\ Deref(heap, ReadKeys(Here, prefix)).t = "map"

\* C8: set, append and extend raise on a key path with an empty segment, and
\* no mapping of the tree is ever keyed by the empty string.
C8_EmptySegmentRaises ==
    /\ (call.op # "none" /\ HasEmptySegment(call.key_path)) => call.err # "ok"
    /\ ~EmptyKeyIn(heap, store, ResolveDepth + 1)

\* C9: a set, append or extend at key path p leaves unchanged what is read at
\* every key path q such that neither of p and q is a prefix of the other.
C9_DisjointPathUnchanged ==
    call.op # "none" =>
        \A q \in KeyPaths :
            (/\ ~IsPrefix(Keys(call.key_path), Keys(q))
             /\ ~IsPrefix(Keys(q), Keys(call.key_path)))
                => Content(Here, q) = Content(pre, q)

\* C10: a set, append or extend that raises leaves the store's tree exactly as
\* it was before the call.
C10_RaiseLeavesStore == call.err # "ok" => Here = pre


====
